---- MODULE Spec2Model ----
(***************************************************************************)
(* Model of pkg/common/load (load.go): IntoObject populates a              *)
(* configuration object from struct-tag defaults, bundled YAML overlays,   *)
(* an optional custom YAML overlay and environment variables.              *)
(*                                                                         *)
(* Go strings that the code inspects character by character (tag values    *)
(* and environment values) are sequences of one-character strings.         *)
(* Names (fields, variables, overlays, files) are plain strings.           *)
(***************************************************************************)
EXTENDS Integers, Sequences, FiniteSets, TLC

VARIABLES
    schema,        \* the struct type of the target: a sequence of fields
    environ,       \* the process environment: variable name -> value
    configs,       \* argument: names of the bundled overlays, in order
    customConfig,  \* argument: path of the custom overlay, "" for none
    objKind,       \* reflect kind of the argument `object`
    obj,           \* the target object: leaf field name -> value
    pc,            \* position inside IntoObject
    frames,        \* call stack of load(): one frame per active call
    ci,            \* index of the `for _, config := range configs` loop
    result,        \* the error IntoObject returned (Nil for nil)
    fs,            \* directories that exist on the local filesystem
    passes,        \* the stages this invocation has run, in order
    calls          \* number of IntoObject invocations started

vars == <<schema, environ, configs, customConfig, objKind, obj, pc, frames,
          ci, result, fs, passes, calls>>

\* ------------------------------------------------------------------ bounds
MaxCalls   == 2     \* IntoObject invocations per behaviour
MaxDirs    == 3     \* directory names ioutil.TempDir can draw from

\* ------------------------------------------------------- string literals
Digits == {"0", "1", "2", "3", "4", "5", "6", "7", "8", "9"}

sEmpty   == << >>
sTmpDir  == <<"_", "_", "T", "M", "P", "_", "D", "I", "R", "_", "_">>
sRndHead == <<"_", "_", "R", "N", "D", "_">>
sRndTail == <<"_", "_">>
sRnd0    == sRndHead \o <<"0">> \o sRndTail
sRnd1    == sRndHead \o <<"1">> \o sRndTail
sRnd2    == sRndHead \o <<"2">> \o sRndTail
sRnd02   == sRndHead \o <<"0", "2">> \o sRndTail
sRndAbc  == sRndHead \o <<"a", "b", "c">> \o sRndTail
sRndHuge == sRndHead \o <<"9", "9", "9", "9", "9", "9", "9", "9", "9", "9",
                          "9", "9", "9", "9", "9", "9", "9", "9", "9", "9">>
                     \o sRndTail
sPreRnd  == <<"p">> \o sRnd1 \o <<"q">>
sD       == <<"d">>
sX       == <<"x">>
sTrue    == <<"t", "r", "u", "e">>
sFalse   == <<"f", "a", "l", "s", "e">>
sMaybe   == <<"m", "a", "y", "b", "e">>
s7       == <<"7">>
s42      == <<"4", "2">>
sNeg3    == <<"-", "3">>
s4x      == <<"4", "x">>
sAB      == <<"a", ",", "b">>
sABC     == <<"a", ",", "b", ",", "c">>
sC       == <<"c">>

\* ------------------------------------------------------------- errors
\* An error is a sequence of strings (its message parts); nil is empty.
Nil == << >>
Errorf(msg, rest) == <<msg>> \o rest

\* --------------------------------------------------- strconv and strings
\* The largest index e >= k - 1 such that s[k..e] are all decimal digits.
RECURSIVE DigitRunEnd(_, _)
DigitRunEnd(s, k) ==
    IF k <= Len(s) /\ s[k] \in Digits THEN DigitRunEnd(s, k + 1) ELSE k - 1

DigitVal(c) ==
    CASE c = "0" -> 0 [] c = "1" -> 1 [] c = "2" -> 2 [] c = "3" -> 3
      [] c = "4" -> 4 [] c = "5" -> 5 [] c = "6" -> 6 [] c = "7" -> 7
      [] c = "8" -> 8 [] c = "9" -> 9

RECURSIVE StripZeros(_)
StripZeros(ds) ==
    IF Len(ds) > 1 /\ ds[1] = "0" THEN StripZeros(Tail(ds)) ELSE ds

\* 2^63 - 1 and 2^63, the limits of a 64-bit int, as digit strings.
MaxInt64Digits == <<"9", "2", "2", "3", "3", "7", "2", "0", "3", "6",
                    "8", "5", "4", "7", "7", "5", "8", "0", "7">>
MinInt64Digits == <<"9", "2", "2", "3", "3", "7", "2", "0", "3", "6",
                    "8", "5", "4", "7", "7", "5", "8", "0", "8">>

\* a <= b for digit strings of the same length
RECURSIVE DigitsLeq(_, _)
DigitsLeq(a, b) ==
    IF a = << >> THEN TRUE
    ELSE IF DigitVal(a[1]) < DigitVal(b[1]) THEN TRUE
    ELSE IF DigitVal(a[1]) > DigitVal(b[1]) THEN FALSE
    ELSE DigitsLeq(Tail(a), Tail(b))

\* the digit string denotes a number <= the limit (a 19-digit string)
FitsLimit(ds, limit) ==
    LET n == StripZeros(ds)
    IN  \/ Len(n) < Len(limit)
        \/ Len(n) = Len(limit) /\ DigitsLeq(n, limit)

RECURSIVE DigitsValue(_)
DigitsValue(ds) ==
    IF ds = << >> THEN 0
    ELSE 10 * DigitsValue(SubSeq(ds, 1, Len(ds) - 1)) + DigitVal(ds[Len(ds)])

IsDigits(s) == s # << >> /\ \A k \in 1..Len(s) : s[k] \in Digits

\* strconv.Atoi: [ok, n]; fails on syntax and on values outside int64.
Atoi(s) ==
    LET signed == s # << >> /\ s[1] \in {"+", "-"}
        ds     == IF signed THEN Tail(s) ELSE s
        neg    == signed /\ s[1] = "-"
    IN  IF ~IsDigits(ds) THEN [ok |-> FALSE, n |-> 0]
        ELSE IF ~FitsLimit(ds, IF neg THEN MinInt64Digits ELSE MaxInt64Digits)
        THEN [ok |-> FALSE, n |-> 0]
        ELSE [ok |-> TRUE,
              n  |-> IF neg THEN 0 - DigitsValue(ds) ELSE DigitsValue(ds)]

\* strconv.ParseInt(value, 10, 0): same syntax and range as Atoi.
ParseInt(s) == Atoi(s)

\* strconv.ParseBool
ParseBool(s) ==
    IF s \in {<<"1">>, <<"t">>, <<"T">>, <<"T", "R", "U", "E">>, sTrue,
              <<"T", "r", "u", "e">>}
    THEN [ok |-> TRUE, b |-> TRUE]
    ELSE IF s \in {<<"0">>, <<"f">>, <<"F">>, <<"F", "A", "L", "S", "E">>,
                   sFalse, <<"F", "a", "l", "s", "e">>}
    THEN [ok |-> TRUE, b |-> FALSE]
    ELSE [ok |-> FALSE, b |-> FALSE]

\* strings.Split(value, ","): the pieces between the commas, in order.
RECURSIVE SplitFrom(_, _, _)
SplitFrom(s, k, cur) ==
    IF k > Len(s) THEN <<cur>>
    ELSE IF s[k] = "," THEN <<cur>> \o SplitFrom(s, k + 1, << >>)
    ELSE SplitFrom(s, k + 1, Append(cur, s[k]))

Split(s) == SplitFrom(s, 1, << >>)

\* ------------------------------------------------------- rndStringRegex
\* regexp "__RND_(\d+)__" matched at position i of s (unanchored regexp).
RndMatchAt(s, i) ==
    /\ i + 5 <= Len(s)
    /\ SubSeq(s, i, i + 5) = sRndHead
    /\ LET e == DigitRunEnd(s, i + 6)
       IN  /\ e >= i + 6
           /\ e + 2 <= Len(s)
           /\ SubSeq(s, e + 1, e + 2) = sRndTail

\* rndStringRegex.MatchString(value)
MatchString(s) == \E i \in 1..Len(s) : RndMatchAt(s, i)

\* a slip: element 0 of the submatches, the whole match, in place of group 1
FindStringSubmatch0(s) ==
    LET i == CHOOSE i \in 1..Len(s) :
                 RndMatchAt(s, i) /\ \A j \in 1..(i - 1) : ~RndMatchAt(s, j)
    IN  SubSeq(s, i, DigitRunEnd(s, i + 6) + 2)

\* rndStringRegex.FindStringSubmatch(value)[1]: group 1 of the leftmost match
FindStringSubmatch1(s) ==
    LET i == CHOOSE i \in 1..Len(s) :
                 RndMatchAt(s, i) /\ \A j \in 1..(i - 1) : ~RndMatchAt(s, j)
    IN  SubSeq(s, i + 6, DigitRunEnd(s, i + 6))

\* ------------------------------------------------------------ the schema
\* A struct type is a sequence of fields.  def and env are the `default`
\* and `env` struct tags: << >> when the tag is absent, <<value>> when set.
Leaf(name, kind, def, env) ==
    [name |-> name, kind |-> kind, def |-> def, env |-> env, fields |-> << >>]
Struct(name, fields) ==
    [name |-> name, kind |-> "Struct", def |-> << >>, env |-> << >>,
     fields |-> fields]

EnvNames == {"NAME", "DEBUG", "COUNT", "TAGS", "WIDTH", "DIR", "SUFFIX",
             "WORK", "TOKEN"}

\* every leaf carries both tags, as the configuration types of the program do
SchemaTagged ==
    << Leaf("Name", "String", <<sD>>, <<"NAME">>),
       Struct("Sub", << Leaf("Dir", "String", <<sTmpDir>>, <<"DIR">>),
                        Leaf("Suffix", "String", <<sRnd2>>, <<"SUFFIX">>) >>),
       Leaf("Debug", "Bool", <<sFalse>>, <<"DEBUG">>),
       Leaf("Count", "Int", <<s7>>, <<"COUNT">>) >>

\* some leaves carry no env tag; a slice and a 32-bit integer
SchemaUntagged ==
    << Leaf("Kube", "String", <<sD>>, << >>),
       Leaf("Name", "String", <<sD>>, <<"NAME">>),
       Leaf("Tags", "Slice", <<sAB>>, <<"TAGS">>),
       Leaf("Width", "Int32", <<s7>>, <<"WIDTH">>),
       Leaf("Count", "Int64", << >>, << >>),
       Leaf("Dir", "String", <<sD>>, <<"DIR">>) >>

\* defaults that do not parse, two levels of nesting, two directories
SchemaBad ==
    << Struct("Sub", << Struct("Inner",
                           << Leaf("Work", "String", <<sTmpDir>>, <<"WORK">>) >>),
                        Leaf("Dir", "String", <<sTmpDir>>, <<"DIR">>),
                        Leaf("Debug", "Bool", <<sMaybe>>, <<"DEBUG">>),
                        Leaf("Kube", "String", <<sD>>, <<"TOKEN">>) >>),
       Leaf("Name", "String", <<sRndAbc>>, <<"NAME">>),
       Leaf("Count", "Int64", <<s4x>>, <<"COUNT">>),
       Leaf("Suffix", "String", <<sRnd02>>, <<"SUFFIX">>) >>

\* random-string directives of every shape
SchemaRnd ==
    << Leaf("Suffix", "String", <<sRnd2>>, <<"SUFFIX">>),
       Leaf("Token", "String", <<sPreRnd>>, <<"TOKEN">>),
       Leaf("Kube", "String", <<sRnd0>>, << >>),
       Leaf("Name", "String", <<sRndHuge>>, <<"NAME">>),
       Leaf("Debug", "Bool", <<sTrue>>, <<"DEBUG">>) >>

Schemas == {SchemaTagged, SchemaUntagged, SchemaBad, SchemaRnd}

RECURSIVE Leaves(_)
\* the leaf fields of a struct type, depth first in declaration order
Leaves(fields) ==
    IF fields = << >> THEN << >>
    ELSE LET f == Head(fields)
         IN  (IF f.kind = "Struct" THEN Leaves(f.fields) ELSE <<f>>)
             \o Leaves(Tail(fields))

LeafSet(fields) == {Leaves(fields)[k] : k \in 1..Len(Leaves(fields))}
LeafNames(fields) == {f.name : f \in LeafSet(fields)}

\* the zero value of a leaf of the given kind
Zero(kind) ==
    CASE kind = "String" -> sEmpty
      [] kind = "Bool"   -> FALSE
      [] kind = "Slice"  -> << >>
      [] OTHER           -> 0

ZeroObject(fields) ==
    [n \in LeafNames(fields) |->
        Zero((CHOOSE f \in LeafSet(fields) : f.name = n).kind)]

\* ------------------------------------------------------- the environment
Env(set) == [v \in EnvNames |-> IF v \in DOMAIN set THEN set[v] ELSE sEmpty]

EnvNone == Env(<< >>)
EnvRnd  == Env("NAME" :> sRnd1)
EnvGood == Env("NAME" :> sX @@ "DEBUG" :> sTrue @@ "COUNT" :> s42 @@
               "TAGS" :> sABC @@ "WIDTH" :> s42 @@ "DIR" :> sTmpDir @@
               "SUFFIX" :> sRnd02 @@ "TOKEN" :> sC)
EnvBad  == Env("NAME" :> sRndAbc @@ "DEBUG" :> sMaybe @@ "COUNT" :> sNeg3 @@
               "SUFFIX" :> sPreRnd @@ "WORK" :> sTmpDir)

Environments == {EnvNone, EnvRnd, EnvGood, EnvBad}

\* os.Getenv
Getenv(name) == environ[name]

\* ---------------------------------------------------------- the overlays
\* A YAML document: what reading it gives and the keys it sets.
\*   status "ok"     the document deserialises
\*          "read"   the bytes cannot be read
\*          "syntax" yaml.Unmarshal rejects the document
\*          "type"   yaml.Unmarshal sets the keys that fit, then reports the
\*                   keys whose value has the wrong type
Doc(status, set) == [status |-> status, set |-> set]

\* the documents packaged under /configs
Bundled ==
    "A" :> Doc("ok", "Name" :> <<"a">> @@ "Count" :> 1 @@ "Kube" :> <<"k">>)
    @@ "B" :> Doc("ok", "Name" :> <<"b">> @@ "Dir" :> sTmpDir
                        @@ "Tags" :> << <<"t">> >>)
    @@ "S" :> Doc("ok", "Kube" :> sTmpDir @@ "Token" :> sRnd2)
    @@ "T" :> Doc("type", "Name" :> <<"t">>)
    @@ "U" :> Doc("read", << >>)

\* the files below the working directory
Files ==
    "custom.yaml" :> Doc("ok", "Name" :> sC @@ "Suffix" :> sRnd2
                               @@ "Kube" :> sC)
    @@ "broken.yaml" :> Doc("syntax", << >>)

\* the configs lists tried: none, one, several in both orders, lists with
\* an overlay that does not exist or does not load
ConfigLists ==
    { << >>, <<"A">>, <<"A", "B">>, <<"B", "A">>, <<"nope">>,
      <<"A", "nope", "B">>, <<"T", "B">>, <<"B", "U", "A">>, <<"S">> }
CustomPaths == {"", "nofile.yaml"} \cup DOMAIN Files

\* yaml.Unmarshal(data, object): keys of the document that name a field of
\* the object overwrite it, every other field is untouched.
Unmarshal(doc, o) ==
    [n \in DOMAIN o |-> IF n \in DOMAIN doc.set THEN doc.set[n] ELSE o[n]]

\* ------------------------------------------------- external generators
DigitChars == <<"1", "2", "3", "4", "5", "6", "7", "8", "9">>
DirPath(k) == <<"/", "t", "m", "p", "/", "o", "s", "d", "e", DigitChars[k]>>
DirPool == {DirPath(k) : k \in 1..MaxDirs}

\* ioutil.TempDir("", "osde2e"): the directories it can create, given the
\* ones that exist.  It can also fail (no name left, no permission).
TempDir(dirs) == DirPool \ dirs

RndAlphabet == {"a", "7"}
RECURSIVE RandomStr(_)
\* util.RandomStr(n): the alphanumeric strings of length n
RandomStr(n) ==
    IF n <= 0 THEN {<< >>}
    ELSE {Append(r, c) : r \in RandomStr(n - 1), c \in RndAlphabet}

\* ------------------------------------------------ processValueFromString
\* The possible outcomes of processValueFromString(f, field, value) when the
\* directories dirs exist: the error returned, the value the field holds
\* afterwards and the directories that exist afterwards.
Outcome(err, val, dirs) == [err |-> err, val |-> val, dirs |-> dirs]

\* a slip: the directory is named without checking that it is new
processStringAnyDir(f, field, value, dirs) ==
    IF value = sTmpDir
    THEN {Outcome(Nil, d, dirs \cup {d}) : d \in DirPool}
         \cup {Outcome(Errorf("error generating temporary directory for field",
                              <<f.name>>), field, dirs)}
    ELSE IF MatchString(value)
    THEN LET n == Atoi(FindStringSubmatch1(value))
         IN  IF n.ok
             THEN {Outcome(Nil, r, dirs) : r \in RandomStr(n.n)}
             ELSE {Outcome(Errorf("error generating random string for field",
                                  <<f.name>>), field, dirs)}
    ELSE {Outcome(Nil, value, dirs)}

processString(f, field, value, dirs) ==
    IF value = sTmpDir
    THEN {Outcome(Nil, d, dirs \cup {d}) : d \in TempDir(dirs)}
         \cup {Outcome(Errorf("error generating temporary directory for field",
                              <<f.name>>), field, dirs)}
    ELSE IF MatchString(value)
    THEN LET n == Atoi(FindStringSubmatch1(value))
         IN  IF n.ok
             THEN {Outcome(Nil, r, dirs) : r \in RandomStr(n.n)}
             ELSE {Outcome(Errorf("error generating random string for field",
                                  <<f.name>>), field, dirs)}
    ELSE {Outcome(Nil, value, dirs)}

processBool(f, field, value, dirs) ==
    LET b == ParseBool(value)
    IN  IF b.ok THEN {Outcome(Nil, b.b, dirs)}
        ELSE {Outcome(Errorf("error parsing bool value for field", <<f.name>>),
                      field, dirs)}

processSlice(f, field, value, dirs) ==
    IF value # sEmpty
    THEN {Outcome(Nil, field \o Split(value), dirs)}
    ELSE {Outcome(Nil, field, dirs)}

processInt(f, field, value, dirs) ==
    LET n == ParseInt(value)
    IN  IF n.ok THEN {Outcome(Nil, n.n, dirs)}
        ELSE {Outcome(Errorf("error parsing int value for field", <<f.name>>),
                      field, dirs)}

processValueFromString(f, field, value, dirs) ==
    CASE f.kind = "String"          -> processString(f, field, value, dirs)
      [] f.kind = "Bool"            -> processBool(f, field, value, dirs)
      [] f.kind = "Slice"           -> processSlice(f, field, value, dirs)
      [] f.kind \in {"Int", "Int64"} -> processInt(f, field, value, dirs)
      [] OTHER                      -> {Outcome(Nil, field, dirs)}

\* ------------------------------------------------------------------ load
\* One frame per active call of load(v, source): the struct type of v, the
\* loop index i (1-based) and the local variable setValue.
Frame(fields) == [fields |-> fields, i |-> 1, setValue |-> sEmpty]

InLoad   == pc \in {"defaults", "env"} /\ frames # << >>
Top      == frames[Len(frames)]
Below    == SubSeq(frames, 1, Len(frames) - 1)
AtField  == InLoad /\ Top.i <= Len(Top.fields)
CurField == Top.fields[Top.i]

\* the loop body `continue`s without touching the field
Continues(f) ==
    IF pc = "defaults" THEN f.def = << >>
    ELSE f.env # << >> /\ Getenv(f.env[1]) = sEmpty

\* setValue after the tag lookups of the loop body
SetValueOf(f) ==
    IF pc = "defaults"
    THEN (IF f.def = << >> THEN sEmpty ELSE f.def[1])
    ELSE (IF f.env = << >> THEN Top.setValue ELSE Getenv(f.env[1]))

\* The call of load at the bottom of the stack returns: loadDefaults and
\* loadFromEnv drop its error and return nil to IntoObject.
Returned(rest) ==
    /\ frames' = rest
    /\ IF rest # << >> THEN UNCHANGED <<pc, ci, result>>
       ELSE IF pc = "defaults"
       THEN pc' = "configs" /\ ci' = 1 /\ UNCHANGED result
       ELSE pc' = "done" /\ result' = Nil /\ UNCHANGED ci

\* objectType.Kind() != reflect.Ptr, negated
KindIsPtrAlways(kind) == TRUE
KindIsPtr(kind) == kind = "Ptr"

\* IntoObject is called: the pointer check, then the default pass begins.
\* reflect.TypeOf of a nil interface is nil, and Kind() on it panics.
IntoObject ==
    /\ pc = "start"
    /\ IF objKind = "Nil"
       THEN /\ pc' = "panic"
            /\ UNCHANGED <<frames, passes, result>>
       ELSE IF ~KindIsPtr(objKind)
       THEN /\ pc' = "done"
            /\ result' = Errorf("the supplied object must be a pointer", << >>)
            /\ UNCHANGED <<frames, passes>>
       ELSE /\ pc' = "defaults"
            /\ frames' = <<Frame(schema)>>
            /\ passes' = Append(passes, [stage |-> "defaults", name |-> ""])
            /\ UNCHANGED result
    /\ UNCHANGED <<schema, environ, configs, customConfig, objKind, obj, ci,
                   fs, calls>>

\* load: the field is a struct, load recurses into it (its error is dropped)
LoadNested ==
    /\ AtField /\ CurField.kind = "Struct"
    /\ frames' = Append(Append(Below, [Top EXCEPT !.i = @ + 1]),
                        Frame(CurField.fields))
    /\ UNCHANGED <<schema, environ, configs, customConfig, objKind, obj, pc,
                   ci, result, fs, passes, calls>>

\* load: the loop body continues (no default tag; env variable empty)
LoadContinue ==
    /\ AtField /\ CurField.kind # "Struct" /\ Continues(CurField)
    /\ frames' = Append(Below, [Top EXCEPT !.i = @ + 1,
                                           !.setValue = SetValueOf(CurField)])
    /\ UNCHANGED <<schema, environ, configs, customConfig, objKind, obj, pc,
                   ci, result, fs, passes, calls>>

\* load: processValueFromString on the field; an error returns from load
LoadField ==
    /\ AtField /\ CurField.kind # "Struct" /\ ~Continues(CurField)
    /\ LET f == CurField
           v == SetValueOf(f)
       IN  \E o \in processValueFromString(f, obj[f.name], v, fs) :
               /\ obj' = [obj EXCEPT ![f.name] = o.val]
               /\ fs' = o.dirs
               /\ IF o.err = Nil
                  THEN /\ frames' = Append(Below, [Top EXCEPT !.i = @ + 1,
                                                             !.setValue = v])
                       /\ UNCHANGED <<pc, ci, result>>
                  ELSE Returned(Below)
    /\ UNCHANGED <<schema, environ, configs, customConfig, objKind, passes,
                   calls>>

\* load: the loop is over, load returns nil
LoadReturn ==
    /\ InLoad /\ Top.i > Len(Top.fields)
    /\ Returned(Below)
    /\ UNCHANGED <<schema, environ, configs, customConfig, objKind, obj, fs,
                   passes, calls>>

\* ----------------------------------------------------------- the overlays
\* what yaml.Unmarshal(data, object) returns and leaves in the object
UnmarshalDoc(doc, o) ==
    CASE doc.status = "ok"     -> [err |-> Nil, obj |-> Unmarshal(doc, o)]
      [] doc.status = "type"   -> [err |-> <<"yaml: unmarshal errors">>,
                                   obj |-> Unmarshal(doc, o)]
      [] doc.status = "syntax" -> [err |-> <<"yaml: syntax error">>,
                                   obj |-> o]

loadYAMLFromConfigs(o, name) ==
    IF name \notin DOMAIN Bundled
    THEN [err |-> Errorf("error trying to open config",
                         <<name, "file does not exist">>), obj |-> o]
    ELSE IF Bundled[name].status = "read"
    THEN [err |-> <<"read error">>, obj |-> o]
    ELSE UnmarshalDoc(Bundled[name], o)

loadYAMLFromFile(o, name) ==
    IF name \notin DOMAIN Files
    THEN [err |-> <<"open", name, "no such file or directory">>, obj |-> o]
    ELSE UnmarshalDoc(Files[name], o)

\* the environment pass begins
StartEnv ==
    /\ pc' = "env"
    /\ frames' = <<Frame(schema)>>

\* a slip: the error of loadYAMLFromConfigs is dropped, as loadDefaults does
LoadConfigDropErr ==
    /\ pc = "configs" /\ ci <= Len(configs)
    /\ LET r == loadYAMLFromConfigs(obj, configs[ci])
       IN  /\ obj' = r.obj
           /\ ci' = ci + 1
           /\ UNCHANGED <<pc, result>>
    /\ passes' = Append(passes, [stage |-> "config", name |-> configs[ci]])
    /\ UNCHANGED <<schema, environ, configs, customConfig, objKind, frames,
                   fs, calls>>

\* IntoObject 2a: one iteration of the loop over configs
LoadConfig ==
    /\ pc = "configs" /\ ci <= Len(configs)
    /\ LET r == loadYAMLFromConfigs(obj, configs[ci])
       IN  /\ obj' = r.obj
           /\ IF r.err # Nil
              THEN /\ result' = Errorf("error loading config from YAML", r.err)
                   /\ pc' = "done"
                   /\ UNCHANGED ci
              ELSE /\ ci' = ci + 1
                   /\ UNCHANGED <<pc, result>>
    /\ passes' = Append(passes, [stage |-> "config", name |-> configs[ci]])
    /\ UNCHANGED <<schema, environ, configs, customConfig, objKind, frames,
                   fs, calls>>

\* IntoObject 2b: no custom overlay was given
SkipCustom ==
    /\ pc = "configs" /\ ci > Len(configs)
    /\ customConfig = ""
    /\ StartEnv
    /\ passes' = Append(passes, [stage |-> "env", name |-> ""])
    /\ UNCHANGED <<schema, environ, configs, customConfig, objKind, obj, ci,
                   result, fs, calls>>

\* IntoObject 2b: the custom overlay is loaded from the file
LoadCustom ==
    /\ pc = "configs" /\ ci > Len(configs)
    /\ customConfig # ""
    /\ LET r == loadYAMLFromFile(obj, customConfig)
       IN  /\ obj' = r.obj
           /\ IF r.err # Nil
              THEN /\ result' = Errorf("error loading custom config from YAML",
                                       r.err)
                   /\ pc' = "done"
                   /\ passes' = Append(passes, [stage |-> "custom",
                                                name |-> customConfig])
                   /\ UNCHANGED frames
              ELSE /\ StartEnv
                   /\ passes' = passes \o
                                <<[stage |-> "custom", name |-> customConfig],
                                  [stage |-> "env", name |-> ""]>>
                   /\ UNCHANGED result
    /\ UNCHANGED <<schema, environ, configs, customConfig, objKind, ci, fs,
                   calls>>

\* loadYAMLFromFile: os.Getwd fails and log.Fatalf ends the process
GetwdFatal ==
    /\ pc = "configs" /\ ci > Len(configs)
    /\ customConfig # ""
    /\ pc' = "fatal"
    /\ passes' = Append(passes, [stage |-> "getwd", name |-> customConfig])
    /\ UNCHANGED <<schema, environ, configs, customConfig, objKind, obj,
                   frames, ci, result, fs, calls>>

\* the caller resolves a fresh, zero-valued object with the same arguments
Call ==
    /\ pc = "done" /\ calls < MaxCalls
    /\ calls' = calls + 1
    /\ pc' = "start"
    /\ obj' = ZeroObject(schema)
    /\ result' = Nil
    /\ passes' = << >>
    /\ ci' = 1
    /\ UNCHANGED <<schema, environ, configs, customConfig, objKind, frames,
                   fs>>

Init ==
    /\ schema \in Schemas
    /\ environ \in Environments
    /\ configs \in ConfigLists
    /\ customConfig \in CustomPaths
    /\ objKind \in {"Ptr", "Struct", "Nil"}
    /\ obj = ZeroObject(schema)
    /\ pc = "start"
    /\ frames = << >>
    /\ ci = 1
    /\ result = Nil
    /\ fs = {}
    /\ passes = << >>
    /\ calls = 1

Next ==
    \/ IntoObject
    \/ LoadNested
    \/ LoadContinue
    \/ LoadField
    \/ LoadReturn
    \/ LoadConfig
    \/ SkipCustom
    \/ LoadCustom
    \/ GetwdFatal
    \/ Call

Spec == Init /\ [][Next]_vars

\* ================================================================ claims
\* Vocabulary of the claims, stated from the specification's words.

\* the field's environment variable is set to a non-empty string
EnvSet(f) == f.env # << >> /\ environ[f.env[1]] # sEmpty

\* the text has the shape __RND_<arg>__
RndShape(v) ==
    /\ Len(v) > 8
    /\ SubSeq(v, 1, 6) = sRndHead
    /\ SubSeq(v, Len(v) - 1, Len(v)) = sRndTail
RndArg(v) == SubSeq(v, 7, Len(v) - 2)
ExactRnd(v) == RndShape(v) /\ IsDigits(RndArg(v))
MalformedRnd(v) == RndShape(v) /\ ~IsDigits(RndArg(v))
\* the text contains the head of a directive somewhere
HasRndHead(v) ==
    \E i \in 1..Len(v) : i + 5 <= Len(v) /\ SubSeq(v, i, i + 5) = sRndHead

IntKinds == {"Int", "Int32", "Int64"}

\* The text parses for a field of the kind.  A string is well-formed when it
\* is a whole directive with a length that fits an int, or a text without
\* the head of a directive in it.
WellFormed(kind, v) ==
    CASE kind = "Bool"     -> ParseBool(v).ok
      [] kind \in IntKinds -> ParseInt(v).ok
      [] kind = "String"   -> IF ExactRnd(v) THEN Atoi(RndArg(v)).ok
                              ELSE ~HasRndHead(v)
      [] OTHER             -> TRUE

\* the field value `actual` is what the text v resolves to for the kind
Expected(kind, v, actual) ==
    CASE kind = "Bool"     -> actual = ParseBool(v).b
      [] kind \in IntKinds -> actual = ParseInt(v).n
      [] kind = "Slice"    -> actual = (IF v = sEmpty THEN << >> ELSE Split(v))
      [] kind = "String"   ->
            IF v = sTmpDir THEN actual \in fs
            ELSE IF ExactRnd(v) THEN Len(actual) = DigitsValue(RndArg(v))
            ELSE actual = v

\* IntoObject has returned nil
Succeeded == pc = "done" /\ result = Nil

\* the overlays of a successful resolution, in the order of application
BundledDocs == [k \in 1..Len(configs) |-> Bundled[configs[k]]]
AppliedDocs ==
    BundledDocs \o (IF customConfig = "" THEN << >> ELSE <<Files[customConfig]>>)
Setters(docs, n) == {k \in 1..Len(docs) : n \in DOMAIN docs[k].set}
LastValue(docs, n) ==
    LET last == CHOOSE k \in Setters(docs, n) :
                    \A j \in Setters(docs, n) : j <= k
    IN  docs[last].set[n]

\* keys set by some overlay named in the arguments
OverlayKeys ==
    UNION ({DOMAIN Bundled[configs[k]].set :
               k \in {j \in 1..Len(configs) : configs[j] \in DOMAIN Bundled}}
           \cup {DOMAIN Files[c].set : c \in {customConfig} \cap DOMAIN Files})

\* C1: when IntoObject has returned without error, every leaf field that
\* declares a default and whose environment variable is set to a non-empty
\* well-formed value holds the parsed environment value.
C1_EnvOverrides ==
    Succeeded =>
        \A f \in LeafSet(schema) :
            (f.def # << >> /\ EnvSet(f)
                /\ WellFormed(f.kind, environ[f.env[1]]))
            => Expected(f.kind, environ[f.env[1]], obj[f.name])

\* C2: when IntoObject has returned without error, every leaf field with a
\* (well-formed) default, set by no overlay and without a set environment
\* variable of its own, holds the parsed default.
C2_DefaultSurvives ==
    Succeeded =>
        \A f \in LeafSet(schema) :
            (f.def # << >> /\ ~EnvSet(f) /\ WellFormed(f.kind, f.def[1])
                /\ Setters(AppliedDocs, f.name) = {})
            => Expected(f.kind, f.def[1], obj[f.name])

C3_OverlayValue ==
    Succeeded =>
        \A f \in LeafSet(schema) :
            (Setters(BundledDocs, f.name) # {} /\ ~EnvSet(f)
                /\ Setters(AppliedDocs, f.name) = Setters(BundledDocs, f.name))
            => obj[f.name] = LastValue(BundledDocs, f.name)

C3_OverlayFrame ==
    pc = "configs" =>
        \A n \in DOMAIN obj : n \notin OverlayKeys => obj'[n] = obj[n]

\* C3: a field set by a bundled overlay (and by no custom overlay) whose
\* environment variable is not set holds the overlay's value after a
\* successful IntoObject; the overlay passes leave every field whose key is
\* in no overlay as the default pass left it.
C3_OverlayOverDefault == [](C3_OverlayValue) /\ [][C3_OverlayFrame]_vars

C4_ExpectedPasses ==
    <<[stage |-> "defaults", name |-> ""]>>
    \o [k \in 1..Len(configs) |-> [stage |-> "config", name |-> configs[k]]]
    \o (IF customConfig = "" THEN << >>
        ELSE <<[stage |-> "custom", name |-> customConfig]>>)
    \o <<[stage |-> "env", name |-> ""]>>

\* C4: a successful IntoObject has run the default pass, the bundled overlays
\* in the order of configs, the custom overlay if customConfig is non-empty,
\* then the environment pass; a field set by several overlays whose
\* environment variable is not set holds the value of the last of them.
C4_LastWriterWins ==
    Succeeded =>
        /\ passes = C4_ExpectedPasses
        /\ \A f \in LeafSet(schema) :
               (Cardinality(Setters(AppliedDocs, f.name)) >= 2 /\ ~EnvSet(f))
               => obj[f.name] = LastValue(AppliedDocs, f.name)

C5_Unparsable(f) ==
    /\ f.kind \in {"Bool", "Int", "Int64"}
    /\ \/ f.def # << >> /\ ~WellFormed(f.kind, f.def[1])
       \/ EnvSet(f) /\ ~WellFormed(f.kind, environ[f.env[1]])

\* C5: when a boolean or integer field, at the top level or nested, has a
\* default or a set environment value that does not parse, IntoObject
\* returns a non-nil error.
C5_FailuresReported ==
    (pc = "done" /\ \E f \in LeafSet(schema) : C5_Unparsable(f))
    => result # Nil

\* C6: a step of the environment pass changes a leaf field only if the
\* field declares an environment variable that is set to a non-empty string.
C6_EnvFrame ==
    [][pc = "env" =>
          \A f \in LeafSet(schema) :
              obj'[f.name] # obj[f.name] => EnvSet(f)]_vars

FailsBundled(name) == name \notin DOMAIN Bundled \/ Bundled[name].status # "ok"
FailsCustom(path) == path \notin DOMAIN Files \/ Files[path].status # "ok"
FailedStage(p) ==
    \/ p.stage = "config" /\ FailsBundled(p.name)
    \/ p.stage = "custom" /\ FailsCustom(p.name)

C7_Aborted ==
    \A k \in 1..Len(passes) :
        FailedStage(passes[k]) =>
            /\ k = Len(passes)
            /\ pc = "done"
            /\ result # Nil
            /\ (passes[k].stage = "config" /\ passes[k].name \notin DOMAIN Bundled)
               => \E j \in 1..Len(result) : result[j] = passes[k].name

C7_Reported ==
    (pc = "done" /\ objKind = "Ptr"
        /\ \/ \E k \in 1..Len(configs) : FailsBundled(configs[k])
           \/ customConfig # "" /\ FailsCustom(customConfig))
    => /\ result # Nil
       /\ \A k \in 1..Len(passes) : passes[k].stage # "env"

C7_NothingAfter ==
    (passes # << >> /\ FailedStage(passes[Len(passes)])) => pc' = "start"

\* C7: when an overlay named in configs has no bundled document, or a
\* bundled or custom overlay cannot be read or deserialised, IntoObject
\* returns an error (naming the overlay when it is a missing bundled one),
\* the failed overlay is the last stage that ran, and the next thing that
\* happens is a fresh invocation.
C7_OverlayFailureAborts ==
    [](C7_Aborted /\ C7_Reported) /\ [][C7_NothingAfter]_vars

C7_Witness ==
    /\ pc = "done" /\ result # Nil
    /\ Len(passes) >= 3
    /\ passes[Len(passes)].stage = "config"
    /\ passes[Len(passes)].name \notin DOMAIN Bundled
    /\ Len(passes) - 1 < Len(configs)
    /\ \E f \in LeafSet(schema) : EnvSet(f)

C8_Directives(f) ==
    {v \in (IF f.def # << >> THEN {f.def[1]} ELSE {})
           \cup (IF EnvSet(f) THEN {environ[f.env[1]]} ELSE {}) :
        MalformedRnd(v)}

\* C8: a string field whose default or set environment value is a
\* random-string directive with a non-numeric length never holds that
\* literal, and IntoObject returns a non-nil error.
C8_MalformedRndIsError ==
    \A f \in LeafSet(schema) :
        (objKind = "Ptr" /\ f.kind = "String" /\ C8_Directives(f) # {})
        => /\ obj[f.name] \notin C8_Directives(f)
           /\ pc = "done" => result # Nil

C9_RndStep ==
    /\ AtField /\ CurField.kind = "String" /\ ~Continues(CurField)
    /\ ExactRnd(SetValueOf(CurField))
    /\ FitsLimit(RndArg(SetValueOf(CurField)), MaxInt64Digits)

\* C9: when processValueFromString handles a string field with a value that
\* is exactly __RND_<N>__, N a decimal integer (that fits an int), the field
\* then holds a string of length N, which is not the directive.
C9_RandomLength ==
    [][C9_RndStep =>
          /\ Len(obj'[CurField.name]) = DigitsValue(RndArg(SetValueOf(CurField)))
          /\ obj'[CurField.name] # SetValueOf(CurField)]_vars

C9_Witness ==
    /\ pc = "done" /\ result = Nil
    /\ \E f \in LeafSet(schema) :
           /\ f.kind = "String" /\ f.def = <<sRnd2>> /\ ~EnvSet(f)
           /\ Setters(AppliedDocs, f.name) = {}
           /\ Len(obj[f.name]) = 2
    /\ \E f \in LeafSet(schema) :
           /\ f.kind = "String" /\ EnvSet(f) /\ environ[f.env[1]] = sRnd1
           /\ Len(obj[f.name]) = 1

C10_TmpStep ==
    /\ AtField /\ CurField.kind = "String" /\ ~Continues(CurField)
    /\ SetValueOf(CurField) = sTmpDir

C10_Fresh ==
    /\ fs \subseteq fs'
    /\ C10_TmpStep =>
          \/ /\ obj'[CurField.name] \in fs' \ fs
             /\ obj'[CurField.name] # sTmpDir
             /\ fs' = fs \cup {obj'[CurField.name]}
          \/ /\ obj' = obj /\ fs' = fs
             /\ frames' = Below

C10_Distinct ==
    \A f \in LeafSet(schema), g \in LeafSet(schema) :
        (f.kind = "String" /\ g.kind = "String" /\ f.name # g.name
            /\ obj[f.name] \in fs)
        => obj[f.name] # obj[g.name]

\* C10: when processValueFromString handles a string field with the value
\* __TMP_DIR__, either the field then holds a directory that did not exist
\* before and exists now, or the creation failed and nothing changed;
\* directories are never removed, and two fields never hold the same
\* directory.
C10_FreshTempDirs == [](C10_Distinct) /\ [][C10_Fresh]_vars

C10_Witness ==
    /\ calls = 2
    /\ Cardinality(fs) = 3
    /\ \E f \in LeafSet(schema), g \in LeafSet(schema) :
           /\ f.name # g.name
           /\ f.def = <<sTmpDir>> /\ g.def = <<sTmpDir>>
           /\ obj[f.name] \in fs /\ obj[g.name] \in fs

\* C11: after a successful IntoObject, a sequence-of-string field whose
\* environment variable is set to a non-empty value holds exactly the
\* comma-split of that value, whatever the default and the overlays put
\* into the field.
C11_SliceFromEnv ==
    Succeeded =>
        \A f \in LeafSet(schema) :
            (f.kind = "Slice" /\ EnvSet(f))
            => obj[f.name] = Split(environ[f.env[1]])

C13_PlainStep ==
    /\ AtField /\ CurField.kind = "String" /\ ~Continues(CurField)
    /\ pc = "env" => CurField.env # << >>
    /\ SetValueOf(CurField) # sTmpDir
    /\ ~RndShape(SetValueOf(CurField))

\* C13: when the default or the environment pass handles a string field
\* with the field's own default or environment value, and the whole text is
\* neither __TMP_DIR__ nor of the shape __RND_..__, the field then holds the
\* text unmodified.
C13_Verbatim ==
    [][C13_PlainStep => obj'[CurField.name] = SetValueOf(CurField)]_vars

C14_Sentinel(v) == v = sTmpDir \/ ExactRnd(v)
C14_Docs ==
    {Bundled[k] : k \in DOMAIN Bundled} \cup {Files[k] : k \in DOMAIN Files}

C14_Literal ==
    Succeeded =>
        \A f \in LeafSet(schema) :
            (/\ f.kind = "String" /\ ~EnvSet(f)
             /\ Setters(AppliedDocs, f.name) # {}
             /\ C14_Sentinel(LastValue(AppliedDocs, f.name)))
            => obj[f.name] = LastValue(AppliedDocs, f.name)

C14_OverlayStep ==
    pc = "configs" =>
        /\ fs' = fs
        /\ \A n \in DOMAIN obj :
               obj'[n] # obj[n] =>
                   obj'[n] \in {d.set[n] : d \in {e \in C14_Docs :
                                                     n \in DOMAIN e.set}}

\* C14: a string field that the last overlay naming it sets to __TMP_DIR__
\* or __RND_<N>__, and whose environment variable is not set, holds that
\* literal after a successful IntoObject; an overlay step creates no
\* directory and assigns to a field only the text of an overlay.
C14_OverlayLiteral == [](C14_Literal) /\ [][C14_OverlayStep]_vars

C15_IntStep ==
    /\ AtField /\ CurField.kind \in IntKinds /\ ~Continues(CurField)
    /\ pc = "env" => CurField.env # << >>

\* C15: when the default or the environment pass handles an integer field
\* of any width (int, int32, int64) with the field's own value, a base-10
\* literal in range is parsed and assigned to the field, and any other text
\* makes load return with the field unchanged.
C15_IntegersResolved ==
    [][C15_IntStep =>
          IF ParseInt(SetValueOf(CurField)).ok
          THEN obj'[CurField.name] = ParseInt(SetValueOf(CurField)).n
          ELSE obj' = obj /\ frames' = Below]_vars

====
